---- MODULE Spec2Model ----
(***************************************************************************)
(* Inventory collector: the parser registry (OutputParser), the command    *)
(* runner (CommandRunner.run_device_commands / run_bulk_inventory) and the *)
(* aggregator (InventoryCollector), modelled from src/src/core.            *)
(*                                                                         *)
(* Strings are sequences of lexical symbols: a word symbol stands for a    *)
(* run of characters of the class [A-Za-z0-9_-], " " and "NL" are white    *)
(* space, ":" "=" ">" "#" are themselves.  The empty string is << >>.      *)
(***************************************************************************)
EXTENDS Integers, Sequences, FiniteSets, TLC

VARIABLES
    input,           \* registry: the argument handed to parse_output
    dtype,           \* registry: the device-type tag handed to parse_output
    fault,           \* registry: the registered vendor parser is made to raise
    output,          \* registry: what the last parse_output call produced
    parses,          \* registry: number of parse_output calls made
    hostname_stats,  \* OutputParser.hostname_stats
    results,         \* summary: the result list handed to get_collection_summary
    summary,         \* summary: what get_collection_summary returned
    devices,         \* the batch of NetworkDevice
    vendor_configs,  \* CommandRunner.vendor_configs: tag -> ordered commands
    mode,            \* which entry point runs: "ips" or "async"
    pc,              \* position of the run
    idx,             \* run_bulk_inventory: enumerate index
    pending,         \* collect_inventory_async: tasks not yet run by the pool
    completed,       \* collect_inventory_async: finished tasks not yet awaited
    rdc,             \* the run_device_commands calls made, in order
    raw_results,     \* run_bulk_inventory: results
    parsed_results,  \* the collector's result list
    handled,         \* per parsed device: what the parser call did
    progress,        \* progress_callback invocations, in order
    exc,             \* exception that escaped the entry point, or "none"
    max_retries,     \* SSHConnector.max_retries
    attempts,        \* connect_with_retry: what each attempt made so far did
    delays,          \* connect_with_retry: the time.sleep calls made, in order
    last_exception,  \* connect_with_retry: last_exception
    open_connections,\* attempts whose ConnectHandler is open and was not returned
    cwr,             \* connect_with_retry: running, or how it ended
    pool,            \* thread pool: the parse_output call of each worker thread
    parse_log,       \* the parse_output calls one instance has returned from
    cisco_lines,     \* CiscoParser: the lines of the command output handed over
    cisco_result     \* CiscoParser: what the parse method returned

vars == <<input, dtype, fault, output, parses, hostname_stats, results, summary,
          devices, vendor_configs, mode, pc, idx, pending, completed, rdc,
          raw_results, parsed_results, handled, progress, exc,
          max_retries, attempts, delays, last_exception, open_connections, cwr,
          pool, parse_log, cisco_lines, cisco_result>>

parserVars == <<pool, parse_log, cisco_lines, cisco_result>>
connectVars == <<max_retries, attempts, delays, last_exception, open_connections, cwr>>
registryVars == <<input, dtype, fault, output, parses>>
summaryVars == <<results, summary>>
runVars == <<devices, vendor_configs, mode, pc, idx, pending, completed, rdc,
             raw_results, parsed_results, handled, progress, exc>>

----------------------------------------------------------------------------
(* Bounds *)

MaxTextLen == 3
MaxResults == 3
MaxDevices == 2
MaxRetries == 3
MaxThreads == 2
MaxParses == 2
MaxLines == 3
MaxCommands == 3

----------------------------------------------------------------------------
(* Text *)

Unknown == <<"Unknown">>

WordSyms == {"R1", "Unknown", "Hostname", "Version"}
WsSyms == {" ", "NL"}
PunctSyms == {":", ">", "#"}
Alphabet == WordSyms \cup WsSyms \cup PunctSyms

Texts == UNION {[1..n -> Alphabet] : n \in 0..MaxTextLen}

IsWord(s) == s \notin WsSyms /\ s \notin {":", "=", ">", "#"}
IsWs(s) == s \in WsSyms
IsNonWs(s) == ~IsWs(s)
IsWordCh(s) == IsWord(s)
IsNotNewline(s) == s # "NL"

\* index just after the longest run of white space starting at i
RECURSIVE SkipWs(_, _)
SkipWs(text, i) ==
    IF i <= Len(text) /\ IsWs(text[i]) THEN SkipWs(text, i + 1) ELSE i

\* index just after the longest run of word symbols starting at i
RECURSIVE WordEnd(_, _)
WordEnd(text, i) ==
    IF i <= Len(text) /\ IsWord(text[i]) THEN WordEnd(text, i + 1) ELSE i

InClass(s, cls) ==
    CASE cls = "word" -> IsWord(s)          \* [A-Za-z0-9\-_] and [\w.\-()]
      [] cls = "nonws" -> IsNonWs(s)        \* \S
      [] cls = "dot" -> IsNotNewline(s)     \* .
      [] cls = "mac" -> s \in {":", "."}    \* [0-9a-f:.], no word symbol is all hex
      [] OTHER -> FALSE

\* index just after the longest run of class cls starting at i (greedy +)
RECURSIVE RunEnd(_, _, _)
RunEnd(text, i, cls) ==
    IF i <= Len(text) /\ InClass(text[i], cls) THEN RunEnd(text, i + 1, cls) ELSE i

NoMatch == [found |-> FALSE, group |-> << >>]
Found(g) == [found |-> TRUE, group |-> g]

Min(S) == CHOOSE x \in S : \A y \in S : x <= y
Max(S) == CHOOSE x \in S : \A y \in S : x >= y

\* re.search(r"([A-Za-z0-9\-_]+)\s*<mark>", text): leftmost start, greedy run
PromptSearch(text, mark) ==
    LET ok(i) == /\ IsWord(text[i])
                 /\ LET k == SkipWs(text, WordEnd(text, i))
                    IN k <= Len(text) /\ text[k] = mark
        hits == {i \in 1..Len(text) : ok(i)}
    IN IF hits = {} THEN NoMatch
       ELSE LET i == Min(hits) IN Found(SubSeq(text, i, WordEnd(text, i) - 1))

LabelAt(text, i, label) ==
    /\ i + Len(label) - 1 <= Len(text)
    /\ SubSeq(text, i, i + Len(label) - 1) = label

\* The tail  <ws1> <sep> \s* (<cls>+)  of a labelled pattern, tried from index a
\* with the regex engine's preferences: each \s* and the optional separator
\* greedy, backtracking to fewer.  ws1 is "none", "star" or "plus"; sep is
\* "none" (no separator and no second \s*), "required" or "optional".
\* The result is the index where the group starts, or 0.
TailStart(text, a, ws1, sep, seps, cls) ==
    LET n == Len(text)
        max1 == IF ws1 = "none" THEN 0 ELSE SkipWs(text, a) - a
        min1 == IF ws1 = "plus" THEN 1 ELSE 0
        good(w1, s, w2) ==
            LET p == a + w1
                b == p + s
                q == b + w2
            IN /\ (s = 1) => (sep # "none" /\ p <= n /\ text[p] \in seps)
               /\ (s = 0) => (sep # "required")
               /\ (sep = "none") => (w2 = 0)
               /\ w2 <= SkipWs(text, b) - b
               /\ q <= n /\ InClass(text[q], cls)
        cands == {c \in (min1..max1) \X {0, 1} \X (0..n) : good(c[1], c[2], c[3])}
        rank(c) == (c[1] * 2 + c[2]) * (n + 1) + c[3]
    IN IF cands = {} THEN 0
       ELSE LET c == CHOOSE x \in cands : \A y \in cands : rank(x) >= rank(y)
            IN a + c[1] + c[2] + c[3]

\* re.search of  <label><tail>  : leftmost label occurrence whose tail matches
LabelSearch(text, label, ws1, sep, seps, cls) ==
    LET start(i) == TailStart(text, i + Len(label), ws1, sep, seps, cls)
        hits == {i \in 1..Len(text) : LabelAt(text, i, label) /\ start(i) # 0}
    IN IF hits = {} THEN NoMatch
       ELSE LET q == start(Min(hits))
            IN Found(SubSeq(text, q, RunEnd(text, q, cls) - 1))

\* a MAC address is one symbol of MacSyms; no text of the bounded alphabet has one
MacSyms == {"00:1a:2b:3c:4d:5e"}
MacSearch(text) ==
    LET hits == {i \in 1..Len(text) : text[i] \in MacSyms}
    IN IF hits = {} THEN NoMatch ELSE Found(<<text[Min(hits)]>>)

_search_regex(m) == IF m.found THEN m.group ELSE Unknown

\* the explicit "Hostname:" field tried before the prompts
extract_hostname_FieldFirst(text) ==
    LET m1 == PromptSearch(text, ">")
        m2 == PromptSearch(text, "#")
        m3 == LabelSearch(text, <<"Hostname">>, "star", "optional", {":", "="}, "word")
    IN IF m3.found THEN m3.group
       ELSE IF m1.found THEN m1.group
       ELSE IF m2.found THEN m2.group
       ELSE Unknown

extract_hostname(text) ==
    LET m1 == PromptSearch(text, ">")
        m2 == PromptSearch(text, "#")
        m3 == LabelSearch(text, <<"Hostname">>, "star", "optional", {":", "="}, "word")
    IN IF m1.found THEN m1.group
       ELSE IF m2.found THEN m2.group
       ELSE IF m3.found THEN m3.group
       ELSE Unknown

----------------------------------------------------------------------------
(* Parser registry: OutputParser *)

\* what a call hands over: a str, or a dict (the RawCommandOutput mapping)
Str(t) == [kind |-> "str", text |-> t]
Dict(m) == [kind |-> "dict", map |-> m]

Return(v) == [raised |-> FALSE, error |-> "none", value |-> v]
Raise(e) == [raised |-> TRUE, error |-> e, value |-> << >>]

\* the keys of OutputParser.parsers
RegisteredTypes == {"cisco_xe", "cisco_ios", "cisco_nxos", "cisco_ios_xr",
                    "hirschmann", "juniper"}
parsers(device_type) ==
    CASE device_type \in {"cisco_xe", "cisco_ios", "cisco_nxos", "cisco_ios_xr"}
            -> "parse_cisco"
      [] device_type = "hirschmann" -> "parse_hirschmann"
      [] device_type = "juniper" -> "parse_juniper"
      [] OTHER -> "generic_parse"

\* re.search on anything but a str raises TypeError
parse_cisco(arg) ==
    IF arg.kind # "str" THEN Raise("TypeError")
    ELSE LET t == arg.text IN Return(
      [hostname |-> extract_hostname(t),
       version |-> _search_regex(LabelSearch(t, <<"Version">>, "plus", "none", {}, "nonws")),
       serial |-> _search_regex(LabelSearch(t,
                     <<"System", " ", "serial", " ", "number">>,
                     "star", "required", {":"}, "nonws")),
       model |-> _search_regex(LabelSearch(t, <<"Model", " ", "number">>,
                     "star", "required", {":"}, "nonws")),
       uptime |-> _search_regex(LabelSearch(t, <<"uptime", " ", "is", " ">>,
                     "none", "none", {}, "dot")),
       mac_address |-> _search_regex(LabelSearch(t,
                     <<"System", " ", "MAC", " ", "Address">>,
                     "star", "required", {":"}, "mac"))])

parse_hirschmann(arg) ==
    IF arg.kind # "str" THEN Raise("TypeError")
    ELSE Return([hostname |-> extract_hostname(arg.text)])

\* a stub that leaves the hostname to the registry
parse_juniper_NoHostname(arg) ==
    IF arg.kind # "str" THEN Raise("TypeError")
    ELSE Return(<< >>)

parse_juniper(arg) ==
    IF arg.kind # "str" THEN Raise("TypeError")
    ELSE Return([hostname |-> extract_hostname(arg.text)])

generic_parse(arg) ==
    IF arg.kind # "str" THEN Raise("TypeError")
    ELSE LET t == arg.text IN Return(
      [hostname |-> extract_hostname(t),
       serial |-> _search_regex(LabelSearch(t, <<"Serial", " ", "Number">>,
                     "star", "optional", {":", "="}, "nonws")),
       mac_address |-> _search_regex(MacSearch(t)),
       model |-> _search_regex(LabelSearch(t, <<"Model">>,
                     "star", "optional", {":", "="}, "nonws")),
       version |-> _search_regex(LabelSearch(t, <<"Version">>,
                     "star", "optional", {":", "="}, "word")),
       uptime |-> _search_regex(LabelSearch(t, <<"Uptime">>,
                     "star", "optional", {":", "="}, "dot"))])

CallParser(name, arg) ==
    CASE name = "parse_cisco" -> parse_cisco(arg)
      [] name = "parse_hirschmann" -> parse_hirschmann(arg)
      [] name = "parse_juniper" -> parse_juniper(arg)
      [] name = "raising" -> Raise("ParserError")
      [] OTHER -> generic_parse(arg)

SetKey(rec, k, v) == [x \in DOMAIN rec \cup {k} |-> IF x = k THEN v ELSE rec[x]]

\* self.parsers.get(device_type, self.generic_parse); broken: the entry of
\* self.parsers for a registered tag was replaced by a callable that raises
SelectParser(device_type, broken) ==
    IF broken /\ device_type \in RegisteredTypes THEN "raising"
    ELSE parsers(device_type)

\* both counters move on every fallback
HostnameFallback_CountBoth(parsed_data, hostname, stats) ==
    [out |-> Return(SetKey(parsed_data, "hostname", hostname)),
     stats |-> [extracted |-> stats.extracted + 1, failed |-> stats.failed + 1]]

\* lines 28-33: the registry's own extract_hostname call and the counters
HostnameFallback(parsed_data, hostname, stats) ==
    [out |-> Return(SetKey(parsed_data, "hostname", hostname)),
     stats |-> IF hostname = Unknown
               THEN [stats EXCEPT !.failed = @ + 1]
               ELSE [stats EXCEPT !.extracted = @ + 1]]

\* lines 26-35, given what the parser call of line 24 produced
AfterParser(r, arg, stats) ==
    IF r.raised THEN [out |-> r, stats |-> stats]
    ELSE IF "hostname" \notin DOMAIN r.value \/ r.value["hostname"] = Unknown
         THEN IF arg.kind # "str" THEN [out |-> Raise("TypeError"), stats |-> stats]
              ELSE HostnameFallback(r.value, extract_hostname(arg.text), stats)
         ELSE [out |-> r, stats |-> stats]

\* parse_output: [out |-> what the call produced, stats |-> hostname_stats after]
parse_output(device_type, arg, stats, broken) ==
    AfterParser(CallParser(SelectParser(device_type, broken), arg), arg, stats)

----------------------------------------------------------------------------
(* Values of the variables a specification does not use *)

NotCalled == [called |-> FALSE, raised |-> FALSE, error |-> "none", value |-> << >>]
NoStats == [extracted |-> 0, failed |-> 0]

RegistryIdle ==
    /\ input = Str(<< >>) /\ dtype = "cisco_ios" /\ fault = FALSE
    /\ output = NotCalled /\ parses = 0

NotComputed == [computed |-> FALSE]
SummaryIdle == results = << >> /\ summary = NotComputed

RunIdle ==
    /\ devices = << >> /\ vendor_configs = << >> /\ mode = "none" /\ pc = "idle"
    /\ idx = 0 /\ pending = {} /\ completed = << >> /\ rdc = << >>
    /\ raw_results = << >>
    /\ parsed_results = << >> /\ handled = << >> /\ progress = << >>
    /\ exc = "none"

NoException == [kind |-> "none", attempt |-> 0]
NotConnecting == [state |-> "idle", value |-> NoException]

ConnectIdle ==
    /\ max_retries = 0 /\ attempts = << >> /\ delays = << >>
    /\ last_exception = NoException /\ open_connections = {}
    /\ cwr = NotConnecting

NotParsed == [called |-> FALSE]

PoolIdle == pool = << >>
LogIdle == parse_log = << >>
CiscoIdle == cisco_lines = << >> /\ cisco_result = NotParsed
ParserIdle == PoolIdle /\ LogIdle /\ CiscoIdle

----------------------------------------------------------------------------
(* SpecParse: one parse_output call on every input of the bounded sets *)

EmptyMap == << >>
RawMaps == {EmptyMap, [version |-> <<"R1", "#">>]}
RegistryInputs == {Str(t) : t \in Texts} \cup {Dict(m) : m \in RawMaps}
TagSample == {"cisco_ios", "hirschmann", "juniper", "acme"}

InitParse ==
    /\ input \in RegistryInputs
    /\ dtype \in TagSample
    /\ fault \in BOOLEAN
    /\ output = NotCalled
    /\ parses = 0
    /\ hostname_stats = NoStats
    /\ SummaryIdle /\ RunIdle /\ ConnectIdle /\ ParserIdle

ParseOutput ==
    /\ parses = 0
    /\ \E r \in {parse_output(dtype, input, hostname_stats, fault)} :
          /\ output' = [called |-> TRUE, raised |-> r.out.raised,
                        error |-> r.out.error, value |-> r.out.value]
          /\ hostname_stats' = r.stats
    /\ parses' = parses + 1
    /\ UNCHANGED <<input, dtype, fault, summaryVars, runVars, connectVars, parserVars>>

NextParse == ParseOutput

SpecParse == InitParse /\ [][NextParse]_vars

----------------------------------------------------------------------------
(* Claims about the registry, under SpecParse *)

CanonicalFields == {"hostname", "model", "serial_number", "version", "uptime", "base_mac"}

\* every canonical key present with a non-empty value
FullyShaped(rec) == \A k \in CanonicalFields : k \in DOMAIN rec /\ rec[k] # << >>

Returned == output.called /\ ~output.raised

\* C3: for every device-type tag and every raw command output, the record the
\* registry returns has each canonical field (hostname, model, serial_number,
\* version, uptime, base_mac) present, as a non-empty string or "Unknown".
C3_CanonicalFieldsPresent == (Returned /\ ~fault) => FullyShaped(output.value)

\* C4: the registry entry point and generic_parse return normally for every
\* input (garbage text, the empty string, the empty command mapping {}): no
\* exception escapes.
C4_ReturnsNormally == (output.called /\ ~fault) => ~output.raised

\* C5: if the vendor parser selected for a registered device type raises, the
\* registry catches the exception and returns exactly what generic_parse returns
\* for the same input.
C5_FallbackToGeneric ==
    (/\ output.called
     /\ dtype \in RegisteredTypes
     /\ CallParser(SelectParser(dtype, fault), input).raised)
    => (~output.raised /\ output.value = generic_parse(input).value)

\* The three pattern classes, stated on the text itself: a token is a maximal
\* run of word symbols.
IsToken(text, i, j) ==
    /\ 1 <= i /\ i <= j /\ j <= Len(text)
    /\ \A k \in i..j : IsWord(text[k])
    /\ (i = 1 \/ ~IsWord(text[i - 1]))
    /\ (j = Len(text) \/ ~IsWord(text[j + 1]))

\* tokens that white space, if anything, separates from a mark
TokensBefore(text, mark) ==
    {SubSeq(text, i, j) : <<i, j>> \in
        {x \in (1..Len(text)) \X (1..Len(text)) :
            /\ IsToken(text, x[1], x[2])
            /\ \E k \in (x[2] + 1)..Len(text) :
                  /\ text[k] = mark
                  /\ \A m \in (x[2] + 1)..(k - 1) : IsWs(text[m])}}

\* values of an explicit Hostname field: after the word Hostname, white space
\* with at most one of ":" "=" in it, then word symbols to the end of their run
HostnameFields(text) ==
    {SubSeq(text, q, e) : <<q, e>> \in
        {x \in (1..Len(text)) \X (1..Len(text)) :
            /\ x[1] <= x[2]
            /\ \A k \in x[1]..x[2] : IsWord(text[k])
            /\ (x[2] = Len(text) \/ ~IsWord(text[x[2] + 1]))
            /\ \E i \in 1..(x[1] - 1) :
                  /\ text[i] = "Hostname"
                  /\ \A m \in (i + 1)..(x[1] - 1) : IsWs(text[m]) \/ text[m] \in {":", "="}
                  /\ Cardinality({m \in (i + 1)..(x[1] - 1) : text[m] \in {":", "="}}) <= 1}}

PriorityOrder(h, s1, s2, s3) ==
    /\ (s1 # {}) => h \in s1
    /\ (s1 = {} /\ s2 # {}) => h \in s2
    /\ (s1 = {} /\ s2 = {} /\ s3 # {}) => h \in s3
    /\ (s1 = {} /\ s2 = {} /\ s3 = {}) => h = Unknown

TextParsed == Returned /\ input.kind = "str"

----------------------------------------------------------------------------
(* InventoryCollector.get_collection_summary *)

\* the address of the i-th device of a batch
IPOf(i) == <<"10", ".", "0", ".", "0", ".", <<"1", "2", "3", "4", "5">>[i]>>
IP1 == IPOf(1)

\* ip.replace('.', '-')
ReplaceDots(ip) == [i \in 1..Len(ip) |-> IF ip[i] = "." THEN "-" ELSE ip[i]]

\* f"device-{ip.replace('.', '-')}"
FallbackHostname(ip) == <<"device-">> \o ReplaceDots(ip)

\* dict.get(key, default)
Get(d, k, default) == IF k \in DOMAIN d THEN d[k] ELSE default

\* hostname.startswith('device-'): "device-" is a symbol of its own
StartsWithDevice(h) == h # << >> /\ h[1] = "device-"

GCD(a, b) == Max({g \in 1..(IF a > b THEN a ELSE b) : a % g = 0 /\ b % g = 0})

\* n / d * 100 for d > 0, kept exact as a fraction in lowest terms
Percent(n, d) ==
    IF n = 0 THEN [num |-> 0, den |-> 1]
    ELSE [num |-> (n * 100) \div GCD(n * 100, d), den |-> d \div GCD(n * 100, d)]

\* (n / d * 100) if d > 0 else 0
Rate(n, d) == IF d > 0 THEN Percent(n, d) ELSE [num |-> 0, den |-> 1]

CountWhere(rs, key, v) ==
    Cardinality({i \in 1..Len(rs) : rs[i].device_info[key] = v})

\* device_types / status_counts: value -> number of results carrying it
CountBy(rs, key) ==
    [v \in {rs[i].device_info[key] : i \in 1..Len(rs)} |-> CountWhere(rs, key, v)]

IsDiscovered(r) ==
    /\ Get(r.device_info, "hostname", << >>) # << >>
    /\ ~StartsWithDevice(Get(r.device_info, "hostname", << >>))

\* f"{hostname} ({ip})"
HostnameLabel(r) ==
    Get(r.device_info, "hostname", << >>) \o <<" ", "(">>
        \o Get(r.device_info, "ip_address", << >>) \o <<")">>

RECURSIVE DiscoveredHostnames(_)
DiscoveredHostnames(rs) ==
    IF rs = << >> THEN << >>
    ELSE IF IsDiscovered(Head(rs))
         THEN <<HostnameLabel(Head(rs))>> \o DiscoveredHostnames(Tail(rs))
         ELSE DiscoveredHostnames(Tail(rs))

\* lines 254-264, given the counts of lines 230-231 and the list of 247-252
SummaryRecord(rs, total_devices, successful, failed, discovered_hostnames) ==
    [computed |-> TRUE,
     total_devices |-> total_devices,
     successful |-> successful,
     failed |-> failed,
     success_rate |-> Rate(successful, total_devices),
     device_types |-> CountBy(rs, "device_type"),
     status_counts |-> CountBy(rs, "connection_status"),
     discovered_hostnames |-> discovered_hostnames,
     hostname_discovery_rate |-> Rate(Len(discovered_hostnames), total_devices)]

\* failed counted from the status instead of derived from the total
get_collection_summary_FailedByStatus(rs) ==
    SummaryRecord(rs, Len(rs), CountWhere(rs, "connection_status", "success"),
                  CountWhere(rs, "connection_status", "failed"),
                  DiscoveredHostnames(rs))

get_collection_summary(rs) ==
    SummaryRecord(rs, Len(rs), CountWhere(rs, "connection_status", "success"),
                  Len(rs) - CountWhere(rs, "connection_status", "success"),
                  DiscoveredHostnames(rs))

----------------------------------------------------------------------------
(* SpecSummary: get_collection_summary on every result list of the bounded sets *)

StatusSample == {"success", "failed", "connected"}
SummaryTags == {"cisco_ios", "acme"}

\* device_info as the collector fills it, and as tests/test_inventory_collector.py
\* builds it (no hostname, no ip_address); the last one is a device whose own
\* name begins with "device-"
InfoSamples ==
    {[connection_status |-> s, device_type |-> d] :
        s \in StatusSample, d \in SummaryTags}
    \cup {[connection_status |-> s, device_type |-> d, hostname |-> h, ip_address |-> IP1] :
        s \in StatusSample, d \in SummaryTags, h \in {FallbackHostname(IP1), <<"R1">>}}
    \cup {[connection_status |-> "success", device_type |-> "cisco_ios",
            hostname |-> <<"device-", "core1">>, ip_address |-> IP1]}

ResultSamples == {[device_info |-> di, parsed_data |-> << >>, errors |-> << >>] : di \in InfoSamples}

ResultLists == UNION {[1..n -> ResultSamples] : n \in 0..MaxResults}

InitSummary ==
    /\ results \in ResultLists
    /\ summary = NotComputed
    /\ hostname_stats = NoStats
    /\ RegistryIdle /\ RunIdle /\ ConnectIdle /\ ParserIdle

GetCollectionSummary ==
    /\ ~summary.computed
    /\ summary' = get_collection_summary(results)
    /\ UNCHANGED <<results, hostname_stats, registryVars, runVars, connectVars,
                   parserVars>>

NextSummary == GetCollectionSummary

SpecSummary == InitSummary /\ [][NextSummary]_vars

\* C2: successful + failed = total_devices = length of the list, and
\* success_rate = successful / total_devices * 100, 0 for the empty list.
C2_SummaryArithmetic ==
    summary.computed =>
        /\ summary.total_devices = Len(results)
        /\ summary.successful + summary.failed = summary.total_devices
        /\ summary.successful >= 0 /\ summary.failed >= 0
        /\ summary.success_rate.den > 0
        /\ summary.success_rate.num * summary.total_devices
              = summary.successful * 100 * summary.success_rate.den
        /\ (summary.total_devices = 0) => summary.success_rate.num = 0

\* a list with a success, a failure and a device left "connected" was summarised
C2_Witness ==
    /\ summary.computed
    /\ Len(results) = 3
    /\ {results[i].device_info.connection_status : i \in 1..Len(results)} = StatusSample
    /\ summary.successful = 1 /\ summary.failed = 2

\* the result carries a final hostname and its address
HasFinalHostname(r) ==
    /\ "hostname" \in DOMAIN r.device_info
    /\ "ip_address" \in DOMAIN r.device_info
    /\ r.device_info.hostname # << >>

\* the final hostname is "device-" plus the device's IP with dots as dashes
IsFallbackPattern(r) ==
    r.device_info.hostname = FallbackHostname(r.device_info.ip_address)

RECURSIVE NonFallbackLabels(_)
NonFallbackLabels(rs) ==
    IF rs = << >> THEN << >>
    ELSE IF IsFallbackPattern(Head(rs))
         THEN NonFallbackLabels(Tail(rs))
         ELSE <<HostnameLabel(Head(rs))>> \o NonFallbackLabels(Tail(rs))

\* C19: over results that carry a final hostname, hostname_discovery_rate is
\* 100 times the fraction of results whose hostname is not the fallback
\* pattern of their own IP (0 for the empty list, 0 when every hostname is the
\* fallback pattern), and discovered_hostnames lists exactly those results
\* as "hostname (ip)".
C19_DiscoveryRateCountsNonFallback ==
    (/\ summary.computed
     /\ \A i \in 1..Len(results) : HasFinalHostname(results[i]))
    => /\ summary.discovered_hostnames = NonFallbackLabels(results)
       /\ summary.hostname_discovery_rate.den > 0
       /\ summary.hostname_discovery_rate.num * Len(results)
             = Len(NonFallbackLabels(results)) * 100 * summary.hostname_discovery_rate.den
       /\ Len(results) = 0 => summary.hostname_discovery_rate.num = 0
       /\ (\A i \in 1..Len(results) : IsFallbackPattern(results[i]))
             => summary.hostname_discovery_rate.num = 0

----------------------------------------------------------------------------
(* CommandRunner.run_device_commands *)

Cmd(n, c) == [name |-> n, command |-> c]

\* get_default_configs, the first two commands of each vendor
DefaultConfigs ==
    [cisco_ios |-> <<Cmd("version", <<"show version">>),
                     Cmd("interfaces", <<"show ip interface brief">>)>>,
     generic_ssh |-> <<Cmd("version", <<"show version">>),
                       Cmd("interfaces", <<"show interfaces">>)>>]

\* a configuration loaded from a YAML file (load_vendor_configs): its own
\* command names in its own order, and no generic_ssh entry
YamlConfigs ==
    [cisco_ios |-> <<Cmd("show_inventory", <<"show inventory">>),
                     Cmd("show_version", <<"show version">>)>>]

ConfigChoices == {DefaultConfigs, YamlConfigs}

\* vendor_configs.get(t, {}).get('commands', {})
ConfigCommands(configs, t) == IF t \in DOMAIN configs THEN configs[t] ELSE << >>

\* lines 291-298: the device type's commands, else those of generic_ssh
CommandsFor(configs, device_type) ==
    IF ConfigCommands(configs, device_type) # << >>
    THEN ConfigCommands(configs, device_type)
    ELSE ConfigCommands(configs, "generic_ssh")

priority_commands == <<"version", "system_info", "show_version", "show_system_information">>

Range(q) == {q[i] : i \in 1..Len(q)}
CommandNames(commands) == {commands[i].name : i \in 1..Len(commands)}
Lookup(commands, n) == (CHOOSE c \in Range(commands) : c.name = n).command

IsPriority(n) == n \in Range(priority_commands)

\* the order of execution: [name, command, priority]
PriorityQueue(commands) ==
    [i \in 1..Len(SelectSeq(priority_commands, LAMBDA n : n \in CommandNames(commands))) |->
        [name |-> SelectSeq(priority_commands, LAMBDA n : n \in CommandNames(commands))[i],
         command |-> Lookup(commands,
             SelectSeq(priority_commands, LAMBDA n : n \in CommandNames(commands))[i]),
         priority |-> TRUE]]

OtherQueue(commands) ==
    [i \in 1..Len(SelectSeq(commands, LAMBDA c : ~IsPriority(c.name))) |->
        [name |-> SelectSeq(commands, LAMBDA c : ~IsPriority(c.name))[i].name,
         command |-> SelectSeq(commands, LAMBDA c : ~IsPriority(c.name))[i].command,
         priority |-> FALSE]]

\* the commands in the order of the configuration
ExecutionOrder_ConfigOrder(commands) ==
    [i \in 1..Len(commands) |->
        [name |-> commands[i].name, command |-> commands[i].command,
         priority |-> IsPriority(commands[i].name)]]

\* lines 307-342: the priority loop, then the loop over other_commands
ExecutionOrder(commands) == PriorityQueue(commands) \o OtherQueue(commands)

\* what the device answers: text, or an exception with its message
Ok(t) == [ok |-> TRUE, text |-> t, msg |-> << >>]
Fails(m) == [ok |-> FALSE, text |-> << >>, msg |-> m]

\* f"Priority command '{command}' failed: {str(e)}" / f"Command '{command}' failed: {str(e)}"
CommandError(c, msg) ==
    (IF c.priority THEN <<"Priority command '">> ELSE <<"Command '">>)
        \o c.command \o <<"' failed: ">> \o msg

\* f"ERROR: {str(e)}"
ErrorPlaceholder(msg) == <<"ERROR", ":", " ">> \o msg

\* f"Failed to process device: {str(e)}"
ProcessError(msg) == <<"Failed to process device: ">> \o msg

\* f"No commands available for device type: {device.device_type}"
NoCommandsMessage(device_type) == <<"No commands available for device type: ", device_type>>

Entry(n, t) == [name |-> n, text |-> t]

HasKey(raw, k) == \E i \in 1..Len(raw) : raw[i].name = k
ValueOf(raw, k) == raw[CHOOSE i \in 1..Len(raw) : raw[i].name = k].text

\* result['raw_output'][command_name] = text, keys in insertion order
DictSet(raw, k, t) ==
    IF HasKey(raw, k)
    THEN [i \in 1..Len(raw) |-> IF raw[i].name = k THEN Entry(k, t) ELSE raw[i]]
    ELSE Append(raw, Entry(k, t))

\* one iteration of the loops of lines 311-342
ExecuteOne(c, o, acc) ==
    IF o.ok
    THEN [acc EXCEPT !.raw_output = DictSet(@, c.name, o.text),
                     !.executed = Append(@, c.name)]
    ELSE [acc EXCEPT !.raw_output = DictSet(@, c.name, ErrorPlaceholder(o.msg)),
                     !.errors = Append(@, CommandError(c, o.msg)),
                     !.executed = Append(@, c.name)]

RECURSIVE ExecuteCommands(_, _, _)
ExecuteCommands(queue, outcome, acc) ==
    IF queue = << >> THEN acc
    ELSE ExecuteCommands(Tail(queue), outcome,
                         ExecuteOne(Head(queue), outcome[Head(queue).name], acc))

\* a tag without a command set is rewritten to the generic one
InitialInfo_GenericTag(device) ==
    [hostname |-> device.hostname, ip_address |-> device.ip_address,
     device_type |-> IF device.device_type \in DOMAIN DefaultConfigs
                     THEN device.device_type ELSE "generic_ssh",
     connection_status |-> "failed"]

\* lines 269-273
InitialInfo(device) ==
    [hostname |-> device.hostname, ip_address |-> device.ip_address,
     device_type |-> device.device_type, connection_status |-> "failed"]

\* disconnect without the test for a connection
DisconnectCalls_Unguarded(connected) == 1

\* the finally block, lines 353-355: calls of ssh_connector.disconnect
DisconnectCalls(connected) == IF connected THEN 1 ELSE 0

\* @retry_with_backoff(retries=3), line 265
retries == 3

\* a failed connection is raised again by the except clause
Escapes_ConnectionFailure(conn) == ~conn.ok

\* an exception leaves the body of run_device_commands: the except clause of
\* lines 347-351 catches Exception from the whole try and raises nothing
Escapes(conn) == FALSE

\* retry_with_backoff, lines 26-34: the body is run again while it raises,
\* retries times at most
BodyRuns(raised) == IF raised THEN retries ELSE 1

\* a finished call: the returned result and what the call did on the way
Frame(device, status, acc, connected, conn, outcome) ==
    [result |-> [device_info |-> [InitialInfo(device) EXCEPT !.connection_status = status],
                 raw_output |-> acc.raw_output,
                 errors |-> acc.errors],
     ip_address |-> device.ip_address,
     body_runs |-> BodyRuns(Escapes(conn)),
     connect_calls |-> BodyRuns(Escapes(conn)),
     connected |-> connected,
     disconnects |-> DisconnectCalls(connected),
     commands |-> acc.commands,
     executed |-> acc.executed,
     conn |-> conn,
     outcome |-> outcome]

NoOutput(commands) == [raw_output |-> << >>, errors |-> << >>, executed |-> << >>,
                       commands |-> commands]

WithError(acc, e) == [acc EXCEPT !.errors = Append(@, e)]

\* line 287: the status while the commands are selected and run
StatusConnected == "connected"

\* the handler leaves the status as it found it
ExceptStatus_Kept(status) == status

\* line 350: the except clause overwrites whatever status was reached
ExceptStatus(status) == "failed"

\* a first failing command fails the device
StatusAfterCommands_FailOnError(acc) == IF acc.errors = << >> THEN "success" ELSE "failed"

\* line 344
StatusAfterCommands(acc) == "success"

\* lines 303-345, with the connection up and commands selected
RunCommands(device, commands, conn, outcome, acc) ==
    Frame(device, StatusAfterCommands(acc), acc, TRUE, conn, outcome)

\* run_device_commands(device): conn is what connect_with_retry does, outcome
\* what the device does for each command name
run_device_commands(device, configs, conn, outcome) ==
    IF ~conn.ok
    THEN Frame(device, ExceptStatus(InitialInfo(device).connection_status),
               WithError(NoOutput(<< >>), ProcessError(conn.msg)),
               FALSE, conn, outcome)
    ELSE IF CommandsFor(configs, device.device_type) = << >>
    THEN Frame(device, ExceptStatus(StatusConnected),
               WithError(NoOutput(<< >>),
                         ProcessError(NoCommandsMessage(device.device_type))),
               TRUE, conn, outcome)
    ELSE RunCommands(device, CommandsFor(configs, device.device_type), conn, outcome,
                     ExecuteCommands(ExecutionOrder(CommandsFor(configs, device.device_type)),
                                     outcome,
                                     NoOutput(CommandsFor(configs, device.device_type))))

----------------------------------------------------------------------------
(* OutputParser.parse_device_output(device_type, raw_output): the entry     *)
(* point the collector calls.  output_parser.py does not define it; it is   *)
(* modelled from the Parser Registry contract of the specification.         *)

RECURSIVE Concat(_)
Concat(raw) ==
    IF raw = << >> THEN << >>
    ELSE IF Tail(raw) = << >> THEN Head(raw).text
    ELSE Head(raw).text \o <<"NL">> \o Concat(Tail(raw))

\* the version command's output, else all the raw text there is
BestText(raw) == IF HasKey(raw, "version") THEN ValueOf(raw, "version") ELSE Concat(raw)

SentinelRecord == [k \in CanonicalFields |-> Unknown]

ResolvedRecord(hostname, stats) ==
    [value |-> [SentinelRecord EXCEPT !["hostname"] = hostname],
     stats |-> IF hostname = Unknown
               THEN [stats EXCEPT !.failed = @ + 1]
               ELSE [stats EXCEPT !.extracted = @ + 1]]

parse_device_output(device_type, raw_output, stats) ==
    ResolvedRecord(extract_hostname(BestText(raw_output)), stats)

\* str(e) of what the call of lines 92-94 / 197-199 raises
ParseFailure == <<"'OutputParser' object has no attribute 'parse_device_output'">>

\* DeviceManager.update_device_hostname / NetworkDevice.update_hostname
update_device_hostname(devs, ip_address, hostname) ==
    [i \in 1..Len(devs) |->
        IF devs[i].ip_address = ip_address THEN [devs[i] EXCEPT !.hostname = hostname]
        ELSE devs[i]]

----------------------------------------------------------------------------
(* InventoryCollector: collect_inventory_from_ips, collect_device_data,     *)
(* collect_inventory_async                                                  *)

Progress(stage, total, current, message) ==
    [stage |-> stage, total |-> total, current |-> current, message |-> message]

\* line 59
LoadedProgress(devs) == Progress("loaded_devices", Len(devs), 0, <<"IP addresses loaded">>)

\* device_progress, lines 71-74: the callback handed to run_bulk_inventory
device_progress(current, total, device_name) ==
    Progress("collecting", total, current, <<"Collecting from ">> \o device_name)

\* command_runner.py line 398
DeviceIdentifier(device) ==
    IF device.hostname # << >> THEN device.hostname ELSE device.ip_address

\* the index counted from one
BulkDeviceProgress_OneBased(i, total, device) ==
    device_progress(i + 1, total, DeviceIdentifier(device))

\* command_runner.py lines 401-402
BulkDeviceProgress(i, total, device) ==
    device_progress(i, total, DeviceIdentifier(device))

\* command_runner.py lines 433-434
BulkCompleteProgress(total) == device_progress(total, total, <<"Complete">>)

\* the devices still to parse instead of those parsed
ParsingProgress_Remaining(total, i, raw_result) ==
    Progress("parsing", total, total - i,
             <<"Parsing ">> \o raw_result.device_info.ip_address)

\* lines 85-87
ParsingProgress(total, i, raw_result) ==
    Progress("parsing", total, i, <<"Parsing ">> \o raw_result.device_info.ip_address)

\* lines 139-141
CompleteProgress(n) == Progress("complete", n, n, <<"Collection complete">>)

\* lines 184-186
AsyncProgress(total, i, result) ==
    Progress("collecting", total, i + 1, <<"Collected ">> \o result.device_info.hostname)

WithHostname(info, h) == [info EXCEPT !.hostname = h]

IsDiscoveredName(h) == h # << >> /\ h # Unknown

\* what the parser call did for one device
Entry0(ip, raised, message, parsed_hostname, appended) ==
    [ip_address |-> ip, raised |-> raised, message |-> message,
     parsed_hostname |-> parsed_hostname, appended |-> appended]

\* f"Failed to parse output for {ip}: {str(e)}"
ParseErrorMessage(ip, e) == <<"Failed to parse output for ">> \o ip \o <<": ">> \o e

\* self.output_parser.generic_parse(*args)
CallGenericParse(args) ==
    IF Len(args) # 1 THEN Raise("TypeError") ELSE generic_parse(args[1])

\* the generated name replaces whatever the parser found
ParsedResult_AlwaysFallback(raw_result, p) ==
    [exc |-> "none",
     result |->
        [device_info |-> WithHostname(raw_result.device_info,
                                  FallbackHostname(raw_result.device_info.ip_address)),
         parsed_data |-> SetKey(p.value, "hostname",
                                  FallbackHostname(raw_result.device_info.ip_address)),
         errors |-> raw_result.errors],
     stats |-> p.stats,
     discovered |-> IsDiscoveredName(Get(p.value, "hostname", Unknown)),
     entry |-> Entry0(raw_result.device_info.ip_address, FALSE, << >>,
                      Get(p.value, "hostname", Unknown), TRUE)]

\* lines 96-119, given the parsed record
ParsedResult(raw_result, p) ==
    [exc |-> "none",
     result |->
        IF IsDiscoveredName(Get(p.value, "hostname", Unknown))
        THEN [device_info |-> WithHostname(raw_result.device_info, p.value["hostname"]),
              parsed_data |-> p.value,
              errors |-> raw_result.errors]
        ELSE [device_info |-> WithHostname(raw_result.device_info,
                                  FallbackHostname(raw_result.device_info.ip_address)),
              parsed_data |-> SetKey(p.value, "hostname",
                                  FallbackHostname(raw_result.device_info.ip_address)),
              errors |-> raw_result.errors],
     stats |-> p.stats,
     discovered |-> IsDiscoveredName(Get(p.value, "hostname", Unknown)),
     entry |-> Entry0(raw_result.device_info.ip_address, FALSE, << >>,
                      Get(p.value, "hostname", Unknown), TRUE)]

\* lines 121-137, given what the call of line 132 produced
ErrorResult(raw_result, e, g, stats) ==
    [exc |-> IF g.raised THEN g.error ELSE "none",
     result |->
        [device_info |-> WithHostname(raw_result.device_info,
                                  FallbackHostname(raw_result.device_info.ip_address)),
         parsed_data |-> IF g.raised THEN << >>
                         ELSE SetKey(g.value, "hostname",
                                  FallbackHostname(raw_result.device_info.ip_address)),
         errors |-> Append(raw_result.errors,
                           ParseErrorMessage(raw_result.device_info.ip_address, e))],
     stats |-> stats,
     discovered |-> FALSE,
     entry |-> Entry0(raw_result.device_info.ip_address, TRUE, e, << >>, ~g.raised)]

\* the body of the loop of lines 84-137 for one raw result
ParseLoopBody(raw_result, raises, stats) ==
    IF raises
    THEN ErrorResult(raw_result, ParseFailure,
                     CallGenericParse(<<Dict(EmptyMap),
                                        Str(<<raw_result.device_info.device_type>>)>>),
                     stats)
    ELSE ParsedResult(raw_result,
                      parse_device_output(raw_result.device_info.device_type,
                                          raw_result.raw_output, stats))

\* lines 201-212
DeviceDataReturned(raw_result, p) ==
    [result |->
        [device_info |-> IF IsDiscoveredName(Get(p.value, "hostname", Unknown))
                         THEN WithHostname(raw_result.device_info, p.value["hostname"])
                         ELSE raw_result.device_info,
         parsed_data |-> p.value,
         errors |-> raw_result.errors],
     stats |-> p.stats,
     discovered |-> IsDiscoveredName(Get(p.value, "hostname", Unknown)),
     entry |-> Entry0(raw_result.device_info.ip_address, FALSE, << >>,
                      Get(p.value, "hostname", Unknown), TRUE)]

\* lines 214-226
DeviceDataFailed(device, e, stats) ==
    [result |->
        [device_info |-> [hostname |-> FallbackHostname(device.ip_address),
                          ip_address |-> device.ip_address,
                          device_type |-> device.device_type,
                          connection_status |-> "failed"],
         parsed_data |-> << >>,
         errors |-> <<e>>],
     stats |-> stats,
     discovered |-> FALSE,
     entry |-> Entry0(device.ip_address, TRUE, e, << >>, TRUE)]

\* collect_device_data(device), given what run_device_commands returned
collect_device_data(device, raw_result, raises, stats) ==
    IF raises THEN DeviceDataFailed(device, ParseFailure, stats)
    ELSE DeviceDataReturned(raw_result,
                            parse_device_output(device.device_type,
                                                raw_result.raw_output, stats))

\* lines 179-180
AdoptParsedHostname(result) ==
    IF Get(result.parsed_data, "hostname", << >>) # << >>
    THEN [result EXCEPT !.device_info = WithHostname(@, result.parsed_data["hostname"])]
    ELSE result

----------------------------------------------------------------------------
(* Spec: one collection run over a batch of devices *)

DeviceTypes == {"cisco_ios", "acme"}

\* a device as load_from_excel leaves it: the IP address stands in for the hostname
NetworkDevice(ip, device_type) ==
    [hostname |-> ip, ip_address |-> ip, device_type |-> device_type]

\* what connect_with_retry does
ConnOutcomes == {[ok |-> TRUE, msg |-> << >>],
                 [ok |-> FALSE, msg |-> <<"Connection failed">>]}

\* what a device answers to one command: the commands that show the system
\* (the priority commands) may carry the prompt with the hostname
CommandOutcomes(name) ==
    IF IsPriority(name)
    THEN {Ok(<<"R1", "#">>), Ok(<<":">>), Fails(<<"timed out">>)}
    ELSE {Ok(<<":">>), Fails(<<"timed out">>)}

AllOutcomes == {Ok(<<"R1", "#">>), Ok(<<":">>), Fails(<<"timed out">>)}

\* the commands that get sent: none without a connection
OutcomesFor(device, configs, conn) ==
    {o \in [(IF conn.ok THEN CommandNames(CommandsFor(configs, device.device_type)) ELSE {})
               -> AllOutcomes] :
        \A n \in DOMAIN o : o[n] \in CommandOutcomes(n)}

Init ==
    /\ RegistryIdle /\ SummaryIdle /\ ConnectIdle /\ ParserIdle
    /\ hostname_stats = NoStats
    /\ \E n \in 0..MaxDevices : \E t \in DeviceTypes :
          devices = [i \in 1..n |-> NetworkDevice(IPOf(i), t)]
    /\ vendor_configs \in ConfigChoices
    /\ mode = "none" /\ pc = "idle" /\ idx = 0
    /\ pending = {} /\ completed = << >> /\ rdc = << >>
    /\ raw_results = << >> /\ parsed_results = << >> /\ handled = << >>
    /\ progress = << >> /\ exc = "none"

\* collect_inventory_from_ips, lines 50-59: devices loaded
StartIps ==
    /\ pc = "idle"
    /\ mode' = "ips" /\ pc' = "bulk" /\ idx' = 0
    /\ progress' = Append(progress, LoadedProgress(devices))
    /\ UNCHANGED <<parserVars, connectVars, registryVars, hostname_stats, summaryVars, devices, vendor_configs,
                   pending, completed, rdc, raw_results, parsed_results, handled, exc>>

\* run_bulk_inventory, one iteration of the loop of lines 397-431
BulkDevice ==
    /\ mode = "ips" /\ pc = "bulk" /\ idx < Len(devices)
    /\ \E conn \in ConnOutcomes :
       \E outcome \in OutcomesFor(devices[idx + 1], vendor_configs, conn) :
       \E f \in {run_device_commands(devices[idx + 1], vendor_configs, conn, outcome)} :
          /\ rdc' = Append(rdc, f)
          /\ raw_results' = Append(raw_results, f.result)
    /\ progress' = Append(progress, BulkDeviceProgress(idx, Len(devices), devices[idx + 1]))
    /\ idx' = idx + 1
    /\ UNCHANGED <<parserVars, connectVars, registryVars, hostname_stats, summaryVars, devices, vendor_configs,
                   mode, pc, pending, completed, parsed_results, handled, exc>>

\* run_bulk_inventory, lines 433-442
BulkComplete ==
    /\ mode = "ips" /\ pc = "bulk" /\ idx = Len(devices)
    /\ progress' = Append(progress, BulkCompleteProgress(Len(devices)))
    /\ pc' = "parse" /\ idx' = 0
    /\ UNCHANGED <<parserVars, connectVars, registryVars, hostname_stats, summaryVars, devices, vendor_configs,
                   mode, pending, completed, rdc, raw_results, parsed_results, handled, exc>>

\* collect_inventory_from_ips, one iteration of the loop of lines 84-137
ParseDevice ==
    /\ mode = "ips" /\ pc = "parse" /\ idx < Len(raw_results)
    /\ \E raises \in BOOLEAN :
       \E s \in {ParseLoopBody(raw_results[idx + 1], raises, hostname_stats)} :
          /\ raw_results' = [raw_results EXCEPT ![idx + 1].device_info = s.result.device_info]
          /\ parsed_results' = IF s.exc = "none" THEN Append(parsed_results, s.result)
                               ELSE parsed_results
          /\ handled' = Append(handled, s.entry)
          /\ hostname_stats' = s.stats
          /\ devices' = IF s.discovered
                        THEN update_device_hostname(devices, s.entry.ip_address,
                                                    s.entry.parsed_hostname)
                        ELSE devices
          /\ exc' = s.exc
          /\ pc' = IF s.exc = "none" THEN "parse" ELSE "aborted"
    /\ progress' = Append(progress, ParsingProgress(Len(raw_results), idx, raw_results[idx + 1]))
    /\ idx' = idx + 1
    /\ UNCHANGED <<parserVars, connectVars, registryVars, summaryVars, vendor_configs, mode, pending, completed, rdc>>

\* collect_inventory_from_ips, lines 139-144
CollectComplete ==
    /\ mode = "ips" /\ pc = "parse" /\ idx = Len(raw_results)
    /\ progress' = Append(progress,
                          CompleteProgress(Len(parsed_results)))
    /\ pc' = "done"
    /\ UNCHANGED <<parserVars, connectVars, registryVars, hostname_stats, summaryVars, devices, vendor_configs,
                   mode, idx, pending, completed, rdc, raw_results, parsed_results,
                   handled, exc>>

\* collect_inventory_async, lines 163-174: one task per device handed to the pool
StartAsync ==
    /\ pc = "idle"
    /\ mode' = "async" /\ pc' = "gather"
    /\ pending' = 1..Len(devices)
    /\ UNCHANGED <<parserVars, connectVars, registryVars, hostname_stats, summaryVars, devices, vendor_configs,
                   idx, completed, rdc, raw_results, parsed_results, handled, progress, exc>>

\* a pool thread runs collect_device_data(devices[d]) to its end
TaskRun(d) ==
    /\ mode = "async" /\ pc = "gather" /\ d \in pending
    /\ \E conn \in ConnOutcomes :
       \E outcome \in OutcomesFor(devices[d], vendor_configs, conn) :
       \E raises \in BOOLEAN :
       \E f \in {run_device_commands(devices[d], vendor_configs, conn, outcome)} :
       \E s \in {collect_device_data(devices[d], f.result, raises, hostname_stats)} :
          /\ rdc' = Append(rdc, f)
          /\ completed' = Append(completed, [result |-> s.result, entry |-> s.entry])
          /\ hostname_stats' = s.stats
          /\ devices' = IF s.discovered
                        THEN update_device_hostname(devices, s.entry.ip_address,
                                                    s.entry.parsed_hostname)
                        ELSE devices
    /\ pending' = pending \ {d}
    /\ UNCHANGED <<parserVars, connectVars, registryVars, summaryVars, vendor_configs, mode, pc, idx, raw_results,
                   parsed_results, handled, progress, exc>>

\* collect_inventory_async, one iteration of the loop of lines 175-186
AsyncNext ==
    /\ mode = "async" /\ pc = "gather" /\ completed # << >>
    /\ \E r \in {AdoptParsedHostname(Head(completed).result)} :
          /\ parsed_results' = Append(parsed_results, r)
          /\ progress' = Append(progress,
                                AsyncProgress(Len(devices), Len(parsed_results), r))
    /\ handled' = Append(handled, Head(completed).entry)
    /\ completed' = Tail(completed)
    /\ UNCHANGED <<parserVars, connectVars, registryVars, hostname_stats, summaryVars, devices, vendor_configs,
                   mode, pc, idx, pending, rdc, raw_results, exc>>

\* collect_inventory_async, line 188
AsyncReturn ==
    /\ mode = "async" /\ pc = "gather" /\ pending = {} /\ completed = << >>
    /\ pc' = "done"
    /\ UNCHANGED <<parserVars, connectVars, registryVars, hostname_stats, summaryVars, devices, vendor_configs,
                   mode, idx, pending, completed, rdc, raw_results, parsed_results,
                   handled, progress, exc>>

Next ==
    \/ StartIps
    \/ BulkDevice
    \/ BulkComplete
    \/ ParseDevice
    \/ CollectComplete
    \/ StartAsync
    \/ \E d \in 1..MaxDevices : TaskRun(d)
    \/ AsyncNext
    \/ AsyncReturn

Spec == Init /\ [][Next]_vars

----------------------------------------------------------------------------
(* Claims about the collection run, under Spec *)

\* msg occurs in one of the strings of errors
ContainsMessage(errors, msg) ==
    \E i \in 1..Len(errors) : \E j \in 0..(Len(errors[i]) - Len(msg)) :
        SubSeq(errors[i], j + 1, j + Len(msg)) = msg

\* C1: for any batch and any combination of per-device retrieval or parsing
\* failures, run_bulk_inventory followed by the parse loop returns normally
\* with exactly one result per input device; a failure on one device never
\* stops the devices after it from being processed.
C1_OneResultPerDevice ==
    mode = "ips" =>
        /\ pc # "aborted" /\ exc = "none"
        /\ pc = "done" => Len(parsed_results) = Len(devices)

\* C6: every result of every collection path, success or failure, carries a
\* parsed_data with all canonical fields present and an errors sequence.
C6_ResultsFullyShaped ==
    /\ \A k \in 1..Len(parsed_results) :
          /\ FullyShaped(parsed_results[k].parsed_data)
          /\ DOMAIN parsed_results[k].errors = 1..Len(parsed_results[k].errors)
    /\ \A k \in 1..Len(completed) :
          /\ FullyShaped(completed[k].result.parsed_data)
          /\ DOMAIN completed[k].result.errors = 1..Len(completed[k].result.errors)

\* the hostname reconciliation decides on for one handled device
ReconciledHostname(e) ==
    IF e.parsed_hostname = << >> \/ e.parsed_hostname = Unknown
    THEN FallbackHostname(e.ip_address)
    ELSE e.parsed_hostname

\* C7: on every collection path the final hostname of a result is the fallback
\* "device-" + IP with "." replaced by "-" when the parsed hostname is empty or
\* "Unknown", and the discovered hostname otherwise; it is never "Unknown".
C7_HostnameReconciled ==
    \A k \in 1..Len(parsed_results) :
        /\ parsed_results[k].device_info.hostname = ReconciledHostname(handled[k])
        /\ parsed_results[k].device_info.hostname # Unknown

\* C8: if retrieval or parsing of a device raises, the result appended for the
\* device has connection_status "failed" and its errors contain the exception
\* message; a device whose parsing raised is not reported as "success".
C8_RaisedMeansFailed ==
    /\ \A k \in 1..Len(handled) : handled[k].raised =>
          /\ k <= Len(parsed_results)
          /\ parsed_results[k].device_info.connection_status = "failed"
          /\ ContainsMessage(parsed_results[k].errors, handled[k].message)
    /\ \A k \in 1..Len(rdc) : ~rdc[k].conn.ok =>
          /\ rdc[k].result.device_info.connection_status = "failed"
          /\ ContainsMessage(rdc[k].result.errors, rdc[k].conn.msg)

\* the call got a connection and a command set
RanCommands(f) == f.connected /\ f.commands # << >>

FailedCommands(f) == {n \in DOMAIN f.outcome : ~f.outcome[n].ok}

RecordedOnce(f, n) ==
    /\ HasKey(f.result.raw_output, n)
    /\ ValueOf(f.result.raw_output, n) = ErrorPlaceholder(f.outcome[n].msg)
    /\ Cardinality({i \in 1..Len(f.result.errors) :
            f.result.errors[i] =
                CommandError([command |-> Lookup(f.commands, n), priority |-> IsPriority(n)],
                             f.outcome[n].msg)}) = 1

CommandFailureIsolated(f) ==
    /\ f.result.device_info.connection_status = "success"
    /\ Len(f.executed) = Len(f.commands)
    /\ Range(f.executed) = CommandNames(f.commands)
    /\ Len(f.result.raw_output) = Len(f.commands)
    /\ CommandNames(f.result.raw_output) = CommandNames(f.commands)
    /\ \A n \in FailedCommands(f) : RecordedOnce(f, n)
    /\ \A n \in DOMAIN f.outcome \ FailedCommands(f) :
          ValueOf(f.result.raw_output, n) = f.outcome[n].text
    /\ Len(f.result.errors) = Cardinality(FailedCommands(f))

\* C10: in run_device_commands with the connection up, a failed command is
\* recorded as one string in errors and as the "ERROR: ..." placeholder under
\* its key in raw_output; every configured command is still executed and has a
\* key in raw_output, the device ends with connection_status "success", and
\* there are as many errors as failed commands.
C10_CommandFailureIsolated ==
    \A k \in 1..Len(rdc) : RanCommands(rdc[k]) => CommandFailureIsolated(rdc[k])

\* a call whose first command failed and whose last command then succeeded
FailedThenContinued(f) ==
    /\ RanCommands(f)
    /\ Len(f.executed) >= 2
    /\ ~f.outcome[f.executed[1]].ok
    /\ f.outcome[f.executed[Len(f.executed)]].ok

C10_Witness == \E k \in 1..Len(rdc) : FailedThenContinued(rdc[k])

\* what run_device_commands caught when it could not get to the commands
RetrievalFailure(f) ==
    IF ~f.conn.ok THEN f.conn.msg
    ELSE NoCommandsMessage(f.result.device_info.device_type)

\* the collector's result for the device of handled[j] reports the failure
FailureReported(f, j) ==
    /\ j <= Len(parsed_results)
    /\ parsed_results[j].device_info.connection_status = "failed"
    /\ ContainsMessage(parsed_results[j].errors, RetrievalFailure(f))
    /\ "hostname" \in DOMAIN parsed_results[j].parsed_data

\* C11: a device whose connection cannot be established (or whose retrieval
\* raises) is marked connection_status "failed" with the failure message in
\* errors, its result still carries a parsed_data record, the bulk run goes on
\* to the next device and no exception leaves the bulk run.
C11_ConnectionFailureContained ==
    /\ \A k \in 1..Len(rdc) : ~RanCommands(rdc[k]) =>
          /\ rdc[k].result.device_info.connection_status = "failed"
          /\ ContainsMessage(rdc[k].result.errors, RetrievalFailure(rdc[k]))
          /\ \A j \in 1..Len(handled) :
                handled[j].ip_address = rdc[k].ip_address => FailureReported(rdc[k], j)
    /\ (mode = "ips" /\ pc \in {"parse", "done", "aborted"}) =>
          Len(raw_results) = Len(devices)

----------------------------------------------------------------------------
(* Claims about the progress callback, under Spec *)

\* C12 as stated: over one run no callback invocation carries a current smaller
\* than that of an earlier invocation, across all phases (loaded_devices,
\* collecting, parsing, complete).
C12_CurrentNeverDecreases ==
    \A i \in 1..Len(progress) : \A j \in i..Len(progress) :
        progress[i].current <= progress[j].current

\* C12 as amended: within one phase no callback invocation carries a current
\* smaller than that of an earlier invocation of the same phase.
C12_CurrentMonotoneWithinPhase ==
    \A i \in 1..Len(progress) : \A j \in i..Len(progress) :
        progress[i].stage = progress[j].stage =>
            progress[i].current <= progress[j].current

\* two devices were parsed after the collecting phase reported both
C12_Witness ==
    /\ \E i \in 1..Len(progress) :
          progress[i].stage = "collecting" /\ progress[i].current = 2
    /\ \E i \in 1..Len(progress) :
          progress[i].stage = "parsing" /\ progress[i].current = 1

\* the invocations run_bulk_inventory made
BulkCalls == SelectSeq(progress, LAMBDA c : c.stage = "collecting")

\* run_bulk_inventory has returned
BulkReturned == mode = "ips" /\ pc \in {"parse", "done", "aborted"}

NotifiedUpTo(stages, m) ==
    \A k \in 1..m : \E i \in 1..Len(progress) :
        progress[i].stage \in stages /\ progress[i].current = k

\* C15: after each device completes (success or failure) and before the next
\* device is processed, the callback is notified with current equal to the
\* number of devices completed so far.
C15_NotifiedAfterEachDevice ==
    /\ NotifiedUpTo({"collecting"}, Len(rdc) - 1)
    /\ BulkReturned => NotifiedUpTo({"collecting"}, Len(rdc))
    /\ mode = "ips" =>
          /\ NotifiedUpTo({"parsing", "complete"}, Len(handled) - 1)
          /\ pc \in {"done", "aborted"} =>
                NotifiedUpTo({"parsing", "complete"}, Len(handled))
    /\ (mode = "async" /\ pc = "done") => NotifiedUpTo({"collecting"}, Len(handled))

----------------------------------------------------------------------------
(* SpecCallback: the collection run with a progress callback that may raise *)

\* the exception leaves the entry point: no call site has a try around the
\* callback (the one of line 59 is re-raised at line 66)
Propagate(call) ==
    /\ progress' = Append(progress, call)
    /\ pc' = "aborted"
    /\ exc' = "CallbackError"

CallbackRaises ==
    \/ /\ pc = "idle"
       /\ mode' = "ips"
       /\ Propagate(LoadedProgress(devices))
       /\ UNCHANGED <<parserVars, connectVars, registryVars, hostname_stats, summaryVars, devices, vendor_configs,
                      idx, pending, completed, rdc, raw_results, parsed_results, handled>>
    \/ /\ mode = "ips" /\ pc = "bulk" /\ idx < Len(devices)
       /\ Propagate(BulkDeviceProgress(idx, Len(devices), devices[idx + 1]))
       /\ UNCHANGED <<parserVars, connectVars, registryVars, hostname_stats, summaryVars, devices, vendor_configs,
                      mode, idx, pending, completed, rdc, raw_results, parsed_results,
                      handled>>
    \/ /\ mode = "ips" /\ pc = "bulk" /\ idx = Len(devices)
       /\ Propagate(BulkCompleteProgress(Len(devices)))
       /\ UNCHANGED <<parserVars, connectVars, registryVars, hostname_stats, summaryVars, devices, vendor_configs,
                      mode, idx, pending, completed, rdc, raw_results, parsed_results,
                      handled>>
    \/ /\ mode = "ips" /\ pc = "parse" /\ idx < Len(raw_results)
       /\ Propagate(ParsingProgress(Len(raw_results), idx, raw_results[idx + 1]))
       /\ UNCHANGED <<parserVars, connectVars, registryVars, hostname_stats, summaryVars, devices, vendor_configs,
                      mode, idx, pending, completed, rdc, raw_results, parsed_results,
                      handled>>
    \/ /\ mode = "ips" /\ pc = "parse" /\ idx = Len(raw_results)
       /\ Propagate(CompleteProgress(Len(parsed_results)))
       /\ UNCHANGED <<parserVars, connectVars, registryVars, hostname_stats, summaryVars, devices, vendor_configs,
                      mode, idx, pending, completed, rdc, raw_results, parsed_results,
                      handled>>
    \/ /\ mode = "async" /\ pc = "gather" /\ completed # << >>
       /\ \E r \in {AdoptParsedHostname(Head(completed).result)} :
             /\ parsed_results' = Append(parsed_results, r)
             /\ Propagate(AsyncProgress(Len(devices), Len(parsed_results), r))
       /\ handled' = Append(handled, Head(completed).entry)
       /\ completed' = Tail(completed)
       /\ UNCHANGED <<parserVars, connectVars, registryVars, hostname_stats, summaryVars, devices, vendor_configs,
                      mode, idx, pending, rdc, raw_results>>

NextCallback == Next \/ CallbackRaises

SpecCallback == Init /\ [][NextCallback]_vars

\* C13: a progress callback that raises, at any invocation in any phase, does
\* not abort the collection: the exception is caught at the call site, the
\* remaining devices are processed and the run returns one result per device.
C13_CallbackFailureContained ==
    /\ exc # "CallbackError"
    /\ pc = "done" => Len(parsed_results) = Len(devices)

----------------------------------------------------------------------------
(* SpecConnect: SSHConnector.connect_with_retry on one device *)

base_delay == 1

\* what one attempt does: ConnectHandler and the "show clock" probe succeed,
\* ConnectHandler raises (authentication, timeout, anything else), or
\* ConnectHandler succeeds and the probe raises
AttemptOutcomes == {"ok", "auth", "timeout", "error", "probe_failed"}

ExceptionOf(outcome, k) == [kind |-> outcome, attempt |-> k]
ConnectionOf(k) == [kind |-> "connection", attempt |-> k]

\* the except clause taken: every exception is retried
IsAuthFailure_Retried(outcome) == FALSE

\* except NetmikoAuthenticationException (lines 48-51)
IsAuthFailure(outcome) == outcome = "auth"

\* one attempt too many
MoreAttempts_Inclusive(made, max) == made <= max

\* for attempt in range(self.max_retries)
MoreAttempts(made, max) == made < max

\* ConnectHandler(**connection_params) returned
Opens(outcome) == outcome \in {"ok", "probe_failed"}

\* lines 62-65, after failed attempt number k (counted from 1)
Backoff(k, max) ==
    IF k - 1 < max - 1 THEN <<base_delay * (2 ^ (k - 1))>> ELSE << >>

\* raise last_exception or Exception(...)
FinalException(last) ==
    IF last.kind # "none" THEN last ELSE [kind |-> "generic", attempt |-> 0]

InitConnect ==
    /\ RegistryIdle /\ SummaryIdle /\ RunIdle /\ ParserIdle
    /\ hostname_stats = NoStats
    /\ max_retries \in 0..MaxRetries
    /\ attempts = << >> /\ delays = << >>
    /\ last_exception = NoException
    /\ open_connections = {}
    /\ cwr = [state |-> "running", value |-> NoException]

\* one iteration of the loop of lines 27-65
ConnectAttempt ==
    /\ cwr.state = "running"
    /\ MoreAttempts(Len(attempts), max_retries)
    /\ \E outcome \in AttemptOutcomes :
          /\ attempts' = Append(attempts, outcome)
          /\ open_connections' = IF Opens(outcome)
                                 THEN open_connections \cup {Len(attempts) + 1}
                                 ELSE open_connections
          /\ IF outcome = "ok"
             THEN /\ cwr' = [state |-> "returned", value |-> ConnectionOf(Len(attempts) + 1)]
                  /\ UNCHANGED <<last_exception, delays>>
             ELSE IF IsAuthFailure(outcome)
             THEN /\ cwr' = [state |-> "raised",
                             value |-> ExceptionOf(outcome, Len(attempts) + 1)]
                  /\ UNCHANGED <<last_exception, delays>>
             ELSE /\ last_exception' = ExceptionOf(outcome, Len(attempts) + 1)
                  /\ delays' = delays \o Backoff(Len(attempts) + 1, max_retries)
                  /\ UNCHANGED cwr
    /\ UNCHANGED <<max_retries, registryVars, hostname_stats, summaryVars, runVars,
                   parserVars>>

\* lines 67-69: all attempts failed
ConnectExhausted ==
    /\ cwr.state = "running"
    /\ ~MoreAttempts(Len(attempts), max_retries)
    /\ cwr' = [state |-> "raised", value |-> FinalException(last_exception)]
    /\ UNCHANGED <<max_retries, attempts, delays, last_exception, open_connections,
                   registryVars, hostname_stats, summaryVars, runVars, parserVars>>

NextConnect == ConnectAttempt \/ ConnectExhausted

SpecConnect == InitConnect /\ [][NextConnect]_vars

\* C16: an authentication failure is not retried: the attempt that raises
\* NetmikoAuthenticationException is the last attempt made, no backoff wait
\* follows it and the exception propagates to the caller.
C16_AuthFailureNotRetried ==
    \A k \in 1..Len(attempts) : attempts[k] = "auth" =>
        /\ Len(attempts) = k
        /\ Len(delays) = k - 1
        /\ cwr = [state |-> "raised", value |-> ExceptionOf("auth", k)]

\* authentication fails on the second attempt, after a timeout
C16_Witness ==
    Len(attempts) = 2 /\ attempts[1] = "timeout" /\ attempts[2] = "auth"

\* C17: at most max_retries attempts are made; the connection of the first
\* successful attempt is returned and no attempt follows it; when all
\* max_retries attempts fail with non-authentication errors the last such
\* error is raised.
C17_BoundedAttempts ==
    /\ Len(attempts) <= max_retries
    /\ \A k \in 1..Len(attempts) : attempts[k] = "ok" =>
          /\ Len(attempts) = k
          /\ cwr = [state |-> "returned", value |-> ConnectionOf(k)]
    /\ cwr.state = "returned" => attempts[Len(attempts)] = "ok"
    /\ (cwr.state = "raised" /\ \A k \in 1..Len(attempts) : attempts[k] # "auth") =>
          /\ Len(attempts) = max_retries
          /\ max_retries >= 1 =>
                cwr.value = ExceptionOf(attempts[max_retries], max_retries)

\* two timeouts, then the third attempt succeeds
C17_Witness ==
    /\ attempts = <<"timeout", "timeout", "ok">>
    /\ cwr.state = "returned"

\* C28: every connection connect_with_retry opens is returned to the caller
\* or closed: no attempt whose ConnectHandler succeeded and whose probe
\* failed has its connection still open when the next attempt starts or when
\* the method raises.
C28_NoConnectionLeftOpen ==
    \A k \in open_connections : k = Len(attempts) /\ cwr.state # "raised"

----------------------------------------------------------------------------
(* Claims about connections and device types, under Spec *)

\* C18: a run_device_commands call that obtained a connection disconnects it
\* exactly once before returning, whether all commands succeed, some fail or
\* the command-set selection raises; without a connection disconnect is not
\* called.
C18_DisconnectedOnce ==
    \A k \in 1..Len(rdc) :
        /\ rdc[k].conn.ok => rdc[k].disconnects = 1
        /\ ~rdc[k].conn.ok => rdc[k].disconnects = 0

\* one call without a connection, and one whose command selection raised or
\* one of whose commands failed
C18_Witness ==
    /\ \E k \in 1..Len(rdc) : ~rdc[k].conn.ok
    /\ \E k \in 1..Len(rdc) :
          \/ rdc[k].conn.ok /\ ~RanCommands(rdc[k])
          \/ RanCommands(rdc[k]) /\ FailedCommands(rdc[k]) # {}

\* the tag of the input device with the address of the result
InputTagOf(r) ==
    devices[CHOOSE k \in 1..Len(devices) :
                devices[k].ip_address = r.device_info.ip_address].device_type

TagKept(r) ==
    /\ \E k \in 1..Len(devices) : devices[k].ip_address = r.device_info.ip_address
    /\ r.device_info.device_type = InputTagOf(r)

\* the counts of the results by the tag of their input device
CountsByInputTag(rs) ==
    [t \in {InputTagOf(rs[i]) : i \in 1..Len(rs)} |->
        Cardinality({i \in 1..Len(rs) : InputTagOf(rs[i]) = t})]

RECURSIVE SumOver(_, _)
SumOver(f, S) ==
    IF S = {} THEN 0
    ELSE f[CHOOSE t \in S : TRUE]
           + SumOver(f, S \ {CHOOSE t \in S : TRUE})

SummaryCountsInputTags(s, rs) ==
    /\ s.device_types = CountsByInputTag(rs)
    /\ SumOver(s.device_types, DOMAIN s.device_types) = s.total_devices
    /\ s.total_devices = Len(rs)

\* C20: the pipeline never rewrites a device's device_type: every result, raw
\* or final, of either collection path carries the tag of its input device,
\* also for an unregistered tag parsed by the generic route, and the summary
\* of the returned list counts the results by that tag, the counts summing to
\* total_devices.
C20_DeviceTypePreserved ==
    /\ \A k \in 1..Len(raw_results) : TagKept(raw_results[k])
    /\ \A k \in 1..Len(completed) : TagKept(completed[k].result)
    /\ \A k \in 1..Len(parsed_results) : TagKept(parsed_results[k])
    /\ SummaryCountsInputTags(get_collection_summary(parsed_results), parsed_results)

\* a finished run over two devices of an unregistered type, one of them
\* parsed without an exception
C20_Witness ==
    /\ pc = "done" /\ Len(devices) = 2
    /\ devices[1].device_type = "acme"
    /\ Len(parsed_results) = 2
    /\ \E k \in 1..Len(handled) : ~handled[k].raised
    /\ \E k \in 1..Len(rdc) : RanCommands(rdc[k])

----------------------------------------------------------------------------
(* SpecPool: parse_output called by the worker threads of one executor on   *)
(* one OutputParser (collect_inventory_async hands every device to the pool) *)

PoolTexts == {<<"R1", "#">>, <<":">>}
PoolTags == {"cisco_ios", "acme"}

\* loop.run_in_executor(self.executor, self.collect_device_data, device)
Submitted(device_type, arg) ==
    [pc |-> "submitted", dtype |-> device_type, arg |-> arg,
     key |-> "none", loaded |-> 0, out |-> NotCalled]

\* line 27
NeedsResolver(r) ==
    /\ ~r.raised
    /\ "hostname" \notin DOMAIN r.value \/ r.value["hostname"] = Unknown

\* lines 30-33: the counter the call is going to increment
CounterKey(hostname) == IF hostname = Unknown THEN "failed" ELSE "extracted"

\* lines 27-29 in one worker, r being what the parser call of line 24 produced
ThreadParsed(task, r) ==
    IF NeedsResolver(r)
    THEN [task EXCEPT !.pc = "load",
                      !.key = CounterKey(extract_hostname(task.arg.text)),
                      !.out = Return(SetKey(r.value, "hostname",
                                            extract_hostname(task.arg.text)))]
    ELSE [task EXCEPT !.pc = "done", !.out = r]

\* hostname_stats[key] += 1 reads the counter, adds and writes it back; no
\* lock is held: the read ...
LoadCounter(task, stats) == [task EXCEPT !.pc = "store", !.loaded = stats[task.key]]

\* ... and the write, after which the call returns
StoreCounter(task, stats) == [stats EXCEPT ![task.key] = task.loaded + 1]

InitPool ==
    /\ \E n \in 1..MaxThreads :
          pool \in [1..n -> {Submitted(d, Str(t)) : d \in PoolTags, t \in PoolTexts}]
    /\ hostname_stats = NoStats
    /\ LogIdle /\ CiscoIdle
    /\ RegistryIdle /\ SummaryIdle /\ RunIdle /\ ConnectIdle

\* a worker runs lines 23-29 of its call
PoolParse(t) ==
    /\ t \in DOMAIN pool
    /\ pool[t].pc = "submitted"
    /\ pool' = [pool EXCEPT ![t] =
                  ThreadParsed(pool[t], CallParser(SelectParser(pool[t].dtype, FALSE),
                                                   pool[t].arg))]
    /\ UNCHANGED <<hostname_stats, parse_log, cisco_lines, cisco_result,
                   registryVars, summaryVars, runVars, connectVars>>

PoolLoad(t) ==
    /\ t \in DOMAIN pool
    /\ pool[t].pc = "load"
    /\ pool' = [pool EXCEPT ![t] = LoadCounter(pool[t], hostname_stats)]
    /\ UNCHANGED <<hostname_stats, parse_log, cisco_lines, cisco_result,
                   registryVars, summaryVars, runVars, connectVars>>

PoolStore(t) ==
    /\ t \in DOMAIN pool
    /\ pool[t].pc = "store"
    /\ hostname_stats' = StoreCounter(pool[t], hostname_stats)
    /\ pool' = [pool EXCEPT ![t].pc = "done"]
    /\ UNCHANGED <<parse_log, cisco_lines, cisco_result,
                   registryVars, summaryVars, runVars, connectVars>>

NextPool ==
    \/ \E t \in 1..MaxThreads : PoolParse(t)
    \/ \E t \in 1..MaxThreads : PoolLoad(t)
    \/ \E t \in 1..MaxThreads : PoolStore(t)

SpecPool == InitPool /\ [][NextPool]_vars

\* the parses that updated a counter
CountingParses == {t \in DOMAIN pool : pool[t].pc = "done" /\ pool[t].key # "none"}

----------------------------------------------------------------------------
(* SpecStats: parse_output calls made one after the other on one OutputParser *)

StatTexts == {<< >>, <<"R1", "#">>, <<":">>, <<"Hostname", ":", "R1">>, <<"Unknown", "#">>}
StatInputs == {Str(t) : t \in StatTexts} \cup {Dict(EmptyMap)}

\* one finished call, as parse_log keeps it
Call(device_type, arg, out) == [dtype |-> device_type, arg |-> arg, out |-> out]

InitStats ==
    /\ fault \in BOOLEAN
    /\ input = Str(<< >>) /\ dtype = "cisco_ios"
    /\ output = NotCalled /\ parses = 0
    /\ hostname_stats = NoStats
    /\ parse_log = << >>
    /\ PoolIdle /\ CiscoIdle
    /\ SummaryIdle /\ RunIdle /\ ConnectIdle

\* the next parse_output(device_type, command_output) call on the instance
ParseNext ==
    /\ parses < MaxParses
    /\ \E arg \in StatInputs : \E device_type \in TagSample :
       \E r \in {parse_output(device_type, arg, hostname_stats, fault)} :
          /\ input' = arg /\ dtype' = device_type
          /\ output' = [called |-> TRUE, raised |-> r.out.raised,
                        error |-> r.out.error, value |-> r.out.value]
          /\ hostname_stats' = r.stats
          /\ parse_log' = Append(parse_log, Call(device_type, arg, r.out))
    /\ parses' = parses + 1
    /\ UNCHANGED <<fault, pool, cisco_lines, cisco_result,
                   summaryVars, runVars, connectVars>>

NextStats == ParseNext

SpecStats == InitStats /\ [][NextStats]_vars

\* the effect on the counters of a call whose parser produced r and whose
\* resolver, when invoked, produced hostname
CountedOnce(r, hostname, before, after, out) ==
    IF NeedsResolver(r)
    THEN /\ ~out.raised /\ out.value["hostname"] = hostname
         /\ IF hostname = Unknown
            THEN after = [before EXCEPT !.failed = @ + 1]
            ELSE after = [before EXCEPT !.extracted = @ + 1]
    ELSE after = before

ResolverResult(arg) == IF arg.kind = "str" THEN extract_hostname(arg.text) ELSE Unknown

\* C22: each call in which the parser's hostname is missing or "Unknown"
\* overwrites the hostname with the resolver's result and increments exactly
\* one counter by one (extracted for a name, failed for "Unknown"); a call
\* that does not invoke the resolver leaves both counters unchanged; no
\* counter ever decreases.
C22_ResolverCountedOnce ==
    [][/\ hostname_stats'.extracted >= hostname_stats.extracted
       /\ hostname_stats'.failed >= hostname_stats.failed
       /\ parses' = parses + 1 =>
             CountedOnce(CallParser(SelectParser(dtype', fault'), input'),
                         ResolverResult(input'),
                         hostname_stats, hostname_stats', output')]_vars

\* a call that found no name was counted, and a later call whose parser found
\* the name left the counters as they were
C22_Witness ==
    /\ Len(parse_log) = 2
    /\ ~parse_log[1].out.raised /\ parse_log[1].out.value["hostname"] = Unknown
    /\ ~parse_log[2].out.raised /\ parse_log[2].out.value["hostname"] = <<"R1">>
    /\ hostname_stats = [extracted |-> 0, failed |-> 1]

\* the calls that returned "Unknown" as hostname
UnknownCalls == {k \in 1..Len(parse_log) :
                    /\ ~parse_log[k].out.raised
                    /\ parse_log[k].out.value["hostname"] = Unknown}

\* C29: on every parser path the registry's fallback runs extract_hostname
\* on the text the parser already searched: a returned hostname is always
\* extract_hostname(text), extracted stays 0 and failed is the number of
\* calls that returned "Unknown".
C29_FallbackNeverRecovers ==
    /\ \A k \in 1..Len(parse_log) :
          ~parse_log[k].out.raised =>
              /\ parse_log[k].arg.kind = "str"
              /\ parse_log[k].out.value["hostname"]
                    = extract_hostname(parse_log[k].arg.text)
    /\ hostname_stats.extracted = 0
    /\ hostname_stats.failed = Cardinality(UnknownCalls)

\* two calls without a name, one through a registered parser and one through
\* the generic parser, and both counted as failed
C29_Witness ==
    /\ Len(parse_log) = 2
    /\ UnknownCalls = {1, 2}
    /\ parse_log[1].dtype = "acme" /\ parse_log[2].dtype = "hirschmann"
    /\ hostname_stats.failed = 2

----------------------------------------------------------------------------
(* Further claims about run_device_commands, under Spec *)

TerminalResult(r) ==
    /\ r.device_info.connection_status \in {"success", "failed"}
    /\ r.device_info.connection_status = "failed" => r.errors # << >>

\* C23: every result returned by run_device_commands or run_bulk_inventory
\* has connection_status "success" or "failed", never the transient
\* "connected", and a "failed" result has a non-empty errors sequence.
C23_TerminalStatus ==
    /\ \A k \in 1..Len(rdc) : TerminalResult(rdc[k].result)
    /\ \A k \in 1..Len(raw_results) : TerminalResult(raw_results[k])

\* run_bulk_inventory returned a device that failed after it was connected
\* (no command set for its type) and a device whose connection failed
C23_Witness ==
    /\ Len(raw_results) = 2
    /\ \E k \in 1..Len(rdc) :
          /\ rdc[k].conn.ok /\ ~RanCommands(rdc[k])
          /\ rdc[k].result.device_info.connection_status = "failed"
    /\ \E k \in 1..Len(rdc) : ~rdc[k].conn.ok

----------------------------------------------------------------------------
(* CiscoParser.parse_inventory.  The output is the sequence of its lines    *)
(* (output.split('\n'), each stripped); a line is what the patterns of     *)
(* lines 54-76 see in it: "blank" is the empty line, "NAME" a line that      *)
(* starts with NAME: "value" (whatever follows on the line is not looked    *)
(* at), "DESCR" one that starts with DESCR: "value", "PID" / "VID" / "SN"   *)
(* one that starts with that label and a value, "other" any other text.     *)

Line(kind, value) == [kind |-> kind, value |-> value]

InventoryLineSamples ==
    {Line("blank", << >>), Line("other", <<"x">>),
     Line("NAME", <<"1">>), Line("NAME", <<"2">>),
     Line("DESCR", <<"d">>), Line("PID", <<"p">>), Line("VID", <<"v">>),
     Line("SN", <<"s">>)}

\* the key of current_module a line of that kind assigns, lines 61-79
FieldOf(kind) ==
    CASE kind = "DESCR" -> "description"
      [] kind = "PID" -> "product_id"
      [] kind = "VID" -> "version_id"
      [] kind = "SN" -> "serial_number"

\* {} as current_module
NoModule == << >>

\* if current_module: hardware_modules.append(current_module.copy())
Flush(current_module, hardware_modules) ==
    IF current_module # NoModule THEN Append(hardware_modules, current_module)
    ELSE hardware_modules

\* the loop of lines 46-79 and the final flush of lines 81-82
RECURSIVE InventoryLoop(_, _, _)
InventoryLoop(lines, current_module, hardware_modules) ==
    IF lines = << >> THEN Flush(current_module, hardware_modules)
    ELSE IF Head(lines).kind = "blank"
    THEN InventoryLoop(Tail(lines), NoModule, Flush(current_module, hardware_modules))
    ELSE IF Head(lines).kind = "NAME"
    THEN InventoryLoop(Tail(lines), [name |-> Head(lines).value],
                       Flush(current_module, hardware_modules))
    ELSE IF Head(lines).kind \in {"DESCR", "PID", "VID", "SN"}
    THEN InventoryLoop(Tail(lines),
                       SetKey(current_module, FieldOf(Head(lines).kind), Head(lines).value),
                       hardware_modules)
    ELSE InventoryLoop(Tail(lines), current_module, hardware_modules)

\* lines 84-87
InventoryRecord(hardware_modules) ==
    [hardware_modules |-> hardware_modules, total_modules |-> Len(hardware_modules)]

parse_inventory(lines) == InventoryRecord(InventoryLoop(lines, NoModule, << >>))

Parsed(method, value) == [called |-> TRUE, method |-> method, value |-> value]

InitInventory ==
    /\ cisco_lines \in UNION {[1..n -> InventoryLineSamples] : n \in 0..MaxLines}
    /\ cisco_result = NotParsed
    /\ hostname_stats = NoStats
    /\ PoolIdle /\ LogIdle
    /\ RegistryIdle /\ SummaryIdle /\ RunIdle /\ ConnectIdle

ParseInventory ==
    /\ ~cisco_result.called
    /\ cisco_result' = Parsed("parse_inventory", parse_inventory(cisco_lines))
    /\ UNCHANGED <<cisco_lines, pool, parse_log, hostname_stats,
                   registryVars, summaryVars, runVars, connectVars>>

NextInventory == ParseInventory

SpecInventory == InitInventory /\ [][NextInventory]_vars

\* the values of the NAME: lines, in input order
RECURSIVE NamesOf(_)
NamesOf(lines) ==
    IF lines = << >> THEN << >>
    ELSE IF Head(lines).kind = "NAME" THEN <<Head(lines).value>> \o NamesOf(Tail(lines))
    ELSE NamesOf(Tail(lines))

\* C24: parse_inventory emits one module per block, in input order:
\* total_modules is the length of hardware_modules, the number of modules is
\* the number of NAME: lines, every module has a name (those of the NAME:
\* lines, in order), a DESCR/PID/VID/SN line outside a block being discarded.
C24_OneModulePerBlock ==
    (cisco_result.called /\ cisco_result.method = "parse_inventory") =>
        /\ cisco_result.value.total_modules = Len(cisco_result.value.hardware_modules)
        /\ Len(cisco_result.value.hardware_modules) = Len(NamesOf(cisco_lines))
        /\ \A k \in 1..Len(cisco_result.value.hardware_modules) :
              /\ "name" \in DOMAIN cisco_result.value.hardware_modules[k]
              /\ cisco_result.value.hardware_modules[k]["name"] = NamesOf(cisco_lines)[k]

----------------------------------------------------------------------------
(* CiscoParser.parse_interfaces.  A line is the sequence of its white-space *)
(* separated tokens (line.split()); the blank line has none.  The token     *)
(* "Interface" stands for any token with that text in it, "---" for any     *)
(* token with three dashes in a row: neither text holds white space, so a   *)
(* line contains it exactly when one of its tokens does.                    *)

InterfaceLineSamples ==
    {<< >>,
     <<"Interface", "IP-Address", "OK?", "Method", "Status", "Protocol">>,
     <<"---", "---", "---", "---", "---", "---">>,
     <<"Gi1", "unassigned", "YES", "unset", "down">>,
     <<"Gi2", "10.0.0.2", "YES", "manual", "up", "up">>,
     <<"Vlan1", "10.0.0.1", "YES", "NVRAM", "up", "up">>,
     <<"Gi3", "unassigned", "YES", "unset", "administratively", "down", "down">>}

\* text in line
Contains(line, text) == \E i \in 1..Len(line) : line[i] = text

\* line 173
SkippedLine(line) ==
    Contains(line, "Interface") \/ Contains(line, "---") \/ line = << >>

\* more than six tokens are asked for
EnoughParts_Strict(parts) == Len(parts) > 6

\* line 177
EnoughParts(parts) == Len(parts) >= 6

\* lines 178-185
InterfaceRecord(parts) ==
    [name |-> parts[1], ip |-> parts[2], ok |-> parts[3], method |-> parts[4],
     status |-> parts[5], protocol |-> parts[6]]

\* the loop of lines 172-185
RECURSIVE InterfaceLoop(_, _)
InterfaceLoop(lines, interfaces) ==
    IF lines = << >> THEN interfaces
    ELSE IF SkippedLine(Head(lines)) THEN InterfaceLoop(Tail(lines), interfaces)
    ELSE IF EnoughParts(Head(lines))
    THEN InterfaceLoop(Tail(lines), Append(interfaces, InterfaceRecord(Head(lines))))
    ELSE InterfaceLoop(Tail(lines), interfaces)

parse_interfaces(lines) == InterfaceLoop(lines, << >>)

InitInterfaces ==
    /\ cisco_lines \in UNION {[1..n -> InterfaceLineSamples] : n \in 0..MaxLines}
    /\ cisco_result = NotParsed
    /\ hostname_stats = NoStats
    /\ PoolIdle /\ LogIdle
    /\ RegistryIdle /\ SummaryIdle /\ RunIdle /\ ConnectIdle

ParseInterfaces ==
    /\ ~cisco_result.called
    /\ cisco_result' = Parsed("parse_interfaces", parse_interfaces(cisco_lines))
    /\ UNCHANGED <<cisco_lines, pool, parse_log, hostname_stats,
                   registryVars, summaryVars, runVars, connectVars>>

NextInterfaces == ParseInterfaces

SpecInterfaces == InitInterfaces /\ [][NextInterfaces]_vars

\* a line that yields a record according to the claim
IsInterfaceLine(line) ==
    /\ line # << >>
    /\ \A i \in 1..Len(line) : line[i] \notin {"Interface", "---"}
    /\ Len(line) >= 6

\* the positions of those lines
InterfaceLineAt == {i \in 1..Len(cisco_lines) : IsInterfaceLine(cisco_lines[i])}

\* the position in the output of the line behind the j-th record
LineOfRecord(j) ==
    CHOOSE i \in InterfaceLineAt :
        Cardinality({h \in InterfaceLineAt : h <= i}) = j

\* C25: parse_interfaces returns one record for each line that is not blank,
\* holds neither "Interface" nor a "---" rule and has at least six tokens,
\* made of its first six tokens as name, ip, ok, method, status, protocol,
\* in the order of the lines; every other line is skipped without error.
C25_OneRecordPerInterfaceLine ==
    (cisco_result.called /\ cisco_result.method = "parse_interfaces") =>
        /\ Len(cisco_result.value) = Cardinality(InterfaceLineAt)
        /\ \A j \in 1..Len(cisco_result.value) :
              /\ DOMAIN cisco_result.value[j]
                    = {"name", "ip", "ok", "method", "status", "protocol"}
              /\ cisco_result.value[j].name = cisco_lines[LineOfRecord(j)][1]
              /\ cisco_result.value[j].ip = cisco_lines[LineOfRecord(j)][2]
              /\ cisco_result.value[j].ok = cisco_lines[LineOfRecord(j)][3]
              /\ cisco_result.value[j].method = cisco_lines[LineOfRecord(j)][4]
              /\ cisco_result.value[j].status = cisco_lines[LineOfRecord(j)][5]
              /\ cisco_result.value[j].protocol = cisco_lines[LineOfRecord(j)][6]

\* a header, a line of seven tokens and a line of five were parsed: one
\* record, holding the first six tokens of the second line
C25_Witness ==
    /\ cisco_result.called /\ cisco_result.method = "parse_interfaces"
    /\ Len(cisco_lines) = 3
    /\ Contains(cisco_lines[1], "Interface")
    /\ Len(cisco_lines[2]) = 7 /\ Len(cisco_lines[3]) = 5
    /\ Len(cisco_result.value) = 1
    /\ cisco_result.value[1].status = "administratively"

NoDuplicates(seq) == \A i, j \in 1..Len(seq) : seq[i] = seq[j] => i = j

----------------------------------------------------------------------------
(* Claims about the parsed record in the collector, under Spec *)

\* the run_device_commands call made for the device with that address
FrameOf(ip) == rdc[CHOOSE k \in 1..Len(rdc) : rdc[k].ip_address = ip]

\* what the parser returned for the device of a handled entry
ParserReturned(e) ==
    parse_device_output(FrameOf(e.ip_address).result.device_info.device_type,
                        FrameOf(e.ip_address).result.raw_output, NoStats).value

\* stored is returned, but for a hostname replaced by the generated name when
\* the returned one was empty or "Unknown"
OnlyHostnameSubstituted(returned, stored, ip) ==
    /\ DOMAIN stored \ {"hostname"} = DOMAIN returned \ {"hostname"}
    /\ \A f \in DOMAIN returned \ {"hostname"} : stored[f] = returned[f]
    /\ \/ "hostname" \notin DOMAIN stored /\ "hostname" \notin DOMAIN returned
       \/ /\ "hostname" \in DOMAIN stored /\ "hostname" \in DOMAIN returned
          /\ stored["hostname"] = returned["hostname"]
       \/ /\ "hostname" \in DOMAIN stored
          /\ stored["hostname"] = FallbackHostname(ip)
          /\ ~IsDiscoveredName(Get(returned, "hostname", Unknown))

\* C26: between the parser's return and the parsed_data stored in the
\* result the collector changes no field other than hostname, and hostname
\* only by substituting the generated fallback name for an empty or
\* "Unknown" parsed hostname.
C26_ParsedRecordKept ==
    \A j \in 1..Len(handled) :
        (~handled[j].raised /\ j <= Len(parsed_results)) =>
            OnlyHostnameSubstituted(ParserReturned(handled[j]),
                                    parsed_results[j].parsed_data,
                                    handled[j].ip_address)

\* a sequential run stored the record of a device that gave its name as the
\* parser returned it, and that of a device that gave none with the
\* generated name
C26_Witness ==
    /\ mode = "ips" /\ Len(parsed_results) = 2 /\ Len(handled) = 2
    /\ ~handled[1].raised /\ ~handled[2].raised
    /\ ParserReturned(handled[1])["hostname"] = <<"R1">>
    /\ parsed_results[1].parsed_data = ParserReturned(handled[1])
    /\ ParserReturned(handled[2])["hostname"] = Unknown
    /\ parsed_results[2].parsed_data["hostname"] = FallbackHostname(IPOf(2))

----------------------------------------------------------------------------
(* SpecCommands: one run_device_commands call, the device type's command    *)
(* set being any ordered choice from a pool of commands                     *)

CommandPool ==
    {Cmd("show_version", <<"show version">>), Cmd("version", <<"show version">>),
     Cmd("system_info", <<"show system">>), Cmd("interfaces", <<"show interfaces">>)}

\* the 'commands' mapping of one vendor: distinct names, in the order of the file
CommandSets ==
    {q \in UNION {[1..n -> CommandPool] : n \in 1..MaxCommands} :
        \A i, j \in 1..Len(q) : q[i] = q[j] => i = j}

InitCommands ==
    /\ \E t \in DeviceTypes : devices = <<NetworkDevice(IP1, t)>>
    /\ \E q \in CommandSets : vendor_configs = [cisco_ios |-> q]
    /\ mode = "none" /\ pc = "idle" /\ idx = 0
    /\ pending = {} /\ completed = << >> /\ rdc = << >>
    /\ raw_results = << >> /\ parsed_results = << >> /\ handled = << >>
    /\ progress = << >> /\ exc = "none"
    /\ hostname_stats = NoStats
    /\ RegistryIdle /\ SummaryIdle /\ ConnectIdle /\ ParserIdle

RunDeviceCommands ==
    /\ rdc = << >>
    /\ \E conn \in ConnOutcomes :
       \E outcome \in OutcomesFor(devices[1], vendor_configs, conn) :
          rdc' = <<run_device_commands(devices[1], vendor_configs, conn, outcome)>>
    /\ UNCHANGED <<parserVars, connectVars, registryVars, hostname_stats, summaryVars,
                   devices, vendor_configs, mode, pc, idx, pending, completed,
                   raw_results, parsed_results, handled, progress, exc>>

NextCommands == RunDeviceCommands

SpecCommands == InitCommands /\ [][NextCommands]_vars

\* the place of a name in priority_commands
PriorityRank(n) == CHOOSE i \in 1..Len(priority_commands) : priority_commands[i] = n

PriorityFirst(executed) ==
    \A i, j \in 1..Len(executed) :
        i < j =>
            /\ IsPriority(executed[j]) => IsPriority(executed[i])
            /\ (IsPriority(executed[i]) /\ IsPriority(executed[j]))
                  => PriorityRank(executed[i]) < PriorityRank(executed[j])

\* C30: the configured commands named version, system_info, show_version and
\* show_system_information are executed, in that order, before every other
\* configured command; each configured command is executed exactly once,
\* whichever of them fail.
C30_PriorityCommandsFirst ==
    \A k \in 1..Len(rdc) :
        RanCommands(rdc[k]) =>
            /\ PriorityFirst(rdc[k].executed)
            /\ NoDuplicates(rdc[k].executed)
            /\ Range(rdc[k].executed) = CommandNames(rdc[k].commands)

\* a set configured as interfaces, show_version, version: version ran first
\* and failed, show_version and interfaces ran after it
C30_Witness ==
    \E k \in 1..Len(rdc) :
        /\ RanCommands(rdc[k])
        /\ rdc[k].commands[1].name = "interfaces"
        /\ rdc[k].executed = <<"version", "show_version", "interfaces">>
        /\ ~rdc[k].outcome["version"].ok

====
